---- MODULE Spec2Model ----
(***************************************************************************)
(* A model of the GoongGeocoder control (src/lib/index.js): the input box, *)
(* the debounced keydown listener, the autocomplete (search) and place     *)
(* detail requests in flight, the typeahead (suggestion list), the map     *)
(* binding and the marker, and the events the control emits.               *)
(*                                                                         *)
(* JavaScript runs every handler to completion on one thread, so each      *)
(* handler is one atomic action.  A handler is written as an operator from *)
(* the control's state (a record g with the fields of `this` and of the    *)
(* collaborators it drives) to the state it leaves behind; handlers call   *)
(* each other by composition, as in the source.                            *)
(***************************************************************************)
EXTENDS Integers, Sequences, FiniteSets, TLC

VARIABLES
    options,      \* this.options: the fields the handlers read
    phase,        \* "constructed" (no onAdd yet), "added", "removed"
    map,          \* this._map: Null or <<"map">>
    goongjs,      \* this._goongjs: Null or <<"goongjs">>
    subscribed,   \* _updateProximity is registered for the map's moveend
    inputValue,   \* this._inputEl.value
    inputString,  \* this.inputString
    fresh,        \* this.fresh
    lastSelected, \* this.lastSelected: Null or <<JSON string of a candidate>>
    typeahead,    \* this._typeahead: data, selected, the rendered message
    loadingEl,    \* this._loadingEl.style.display
    clearEl,      \* this._clearEl.style.display
    mapMarker,    \* this.mapMarker: Null or <<[lng, lat] of the marker>>
    markersOnMap, \* markers this control has added to the map and not removed
    searches,     \* autocomplete requests in flight, oldest first
    details,      \* placeDetail requests in flight, oldest first
    debounced,    \* lodash.debounce: lastArgs of the pending call, or Null
    timer,        \* ms since the last call of the debounced listener (capped)
    burst,        \* searches the keydown listener dispatched in this burst
    picks,        \* the candidate of the latest change events, and the
                  \* placeDetail requests they issued (2 for two or more)
    emitted,      \* events emitted by the last handler, in order
    flown,        \* map.flyTo commands issued by the last handler
    sent,         \* requests issued by the last handler, each with the
                  \* number of events the handler had emitted before it
    threw,        \* the last handler threw (its promise rejected)
    thrower,      \* the event whose listener, registered by the host with
                  \* on(type, fn), throws; Null when no listener throws
    last          \* the last handler that ran, with its input

vars == <<options, phase, map, goongjs, subscribed, inputValue, inputString,
          fresh, lastSelected, typeahead, loadingEl, clearEl, mapMarker,
          markersOnMap, searches, details, debounced, timer, burst, picks,
          emitted, flown, sent, threw, thrower, last>>

-----------------------------------------------------------------------------
(* Bounds of the model *)

MaxLen == 2          \* longest text the input box holds
MaxInFlight == 2     \* requests in flight at once
TickMs == 100        \* granularity of the clock

(* Constants of the program *)

DebounceWait == 200      \* debounce(this._onKeyDown, 200)
ESC_KEY_CODE == 27
TAB_KEY_CODE == 9
DefaultZoom == 16
DefaultMinLength == 2
DefaultRadius == 3000
ProximityMinZoom == 9    \* this._map.getZoom() > 9

-----------------------------------------------------------------------------
(* Values *)

Null == <<>>                 \* null / undefined: an absent value
Some(x) == <<x>>
Truthy(o) == o # Null

Chars == {"a", " "}
Texts == UNION {[1..n -> Chars] : n \in 0..MaxLen}

\* Two predictions of the autocomplete service and the location the place
\* detail service returns for each.
P1 == [place_id |-> "p1", description |-> <<"a", "a">>]
P2 == [place_id |-> "p2", description |-> <<"a">>]
Candidates == {P1, P2}
PredictionLists == {<<>>, <<P1, P2>>}
Location(placeid) ==
    IF placeid = "p1" THEN [lat |-> 21, lng |-> 105] ELSE [lat |-> 10, lng |-> 106]

\* error.status of a rejected request: 0 is the client's abort signal.
ErrorStatuses == {0, 500}

\* keydown events: a, backspace, tab, escape, shift (which edits nothing),
\* cmd+a
KeyEvents ==
    {[keyCode |-> k, metaKey |-> FALSE] : k \in {65, 8, 9, 27, 16}}
    \cup {[keyCode |-> 65, metaKey |-> TRUE]}

\* what the clipboard holds on a paste, and what the host passes to query
Clipboard == {<<"a", " ">>}
QueryInputs == {<<"a", "a">>}

\* options.flyTo is false, true or an object of animation parameters.
FlyToFalse == [kind |-> "false", zoom |-> Null, center |-> Null]
FlyToTrue == [kind |-> "true", zoom |-> Null, center |-> Null]
FlyToCustom == [kind |-> "object", zoom |-> Some(10), center |-> Some(<<0, 0>>)]

\* views of the map: getZoom() and getCenter(), the center as a proximity
\* ({latitude, longitude}); the map is mounted at the first
Centers == {[latitude |-> 21, longitude |-> 105], [latitude |-> 0, longitude |-> 105]}
Zooms == {5, 12}
MountView == [zoom |-> 5, center |-> [latitude |-> 21, longitude |-> 105]]

-----------------------------------------------------------------------------
(* The control's state as one value, and the events it emits *)

G ==
    [options |-> options, phase |-> phase, map |-> map, goongjs |-> goongjs,
     subscribed |-> subscribed, inputValue |-> inputValue,
     inputString |-> inputString, fresh |-> fresh, lastSelected |-> lastSelected,
     typeahead |-> typeahead, loadingEl |-> loadingEl, clearEl |-> clearEl,
     mapMarker |-> mapMarker, markersOnMap |-> markersOnMap,
     searches |-> searches, details |-> details,
     emitted |-> <<>>, flown |-> <<>>, sent |-> <<>>, threw |-> FALSE,
     thrower |-> thrower]

Event(type, payload) == [type |-> type, payload |-> payload]

\* this._eventEmitter.emit(type, payload): the listeners run inside the
\* call, and what a listener throws comes out of it
emit(g, type, payload) ==
    [g EXCEPT !.emitted = Append(@, Event(type, payload)),
              !.threw = (g.thrower = Some(type))]

\* JSON.stringify(selected): the candidate's keys and values, in order
JSONstringify(c) == <<"place_id", c.place_id, "description", c.description>>

-----------------------------------------------------------------------------
(* The typeahead (package suggestions), as index.js drives it *)

\* this._typeahead.update(data): replaces the data and redraws the list
\* (a rendered message is wiped); the selection is left alone
typeaheadUpdate(g, data) ==
    [g EXCEPT !.typeahead.data = data, !.typeahead.message = "none"]

\* this._typeahead.clear(): empties the data
typeaheadClear(g) == [g EXCEPT !.typeahead.data = <<>>]

\* this._typeahead.renderError(msg)
typeaheadRenderError(g, msg) == [g EXCEPT !.typeahead.message = msg]

_renderMessage(g, msg) ==
    LET g1 == typeaheadUpdate(g, <<>>)
        g2 == [g1 EXCEPT !.typeahead.selected = Null]
        g3 == typeaheadClear(g2)
    IN  typeaheadRenderError(g3, msg)

_renderError(g) == _renderMessage(g, "error")

_renderNoResults(g) == _renderMessage(g, "noresults")

-----------------------------------------------------------------------------
(* The marker *)

_removeMarker(g) ==
    IF Truthy(g.mapMarker)
    THEN [g EXCEPT !.mapMarker = Null, !.markersOnMap = @ - 1]
    ELSE g

\* _handleMarker without the call of _removeMarker
_handleMarkerKeepsOld(g, detail) ==
    IF ~Truthy(g.map)
    THEN g
    ELSE [g EXCEPT !.mapMarker = Some(<<detail.lng, detail.lat>>),
                   !.markersOnMap = @ + 1]

_handleMarker(g, detail) ==
    IF ~Truthy(g.map)
    THEN g
    ELSE LET g1 == _removeMarker(g)
         IN  [g1 EXCEPT !.mapMarker = Some(<<detail.lng, detail.lat>>),
                        !.markersOnMap = @ + 1]

-----------------------------------------------------------------------------
(* Selection: the change listener and the placeDetail response handlers *)

DetailRequest(selected) ==
    [placeid |-> selected.place_id, selected |-> selected, latest |-> TRUE]

Supersede(reqs) == [i \in 1..Len(reqs) |-> [reqs[i] EXCEPT !.latest = FALSE]]

\* autoCompleteService.placeDetail({placeid}).send()
sendDetail(g, req) ==
    [g EXCEPT !.details = Append(Supersede(@), req),
              !.sent = Append(@, [kind |-> "placeDetail", req |-> req,
                                  after |-> Len(g.emitted)])]

\* _onChange comparing the candidate itself with the JSON string, which
\* never match
_onChangeUnguarded(g) ==
    LET selected == g.typeahead.selected
    IN  IF Truthy(selected)
        THEN IF g.options.flyTo.kind = "false"
             THEN g
             ELSE sendDetail(g, DetailRequest(selected[1]))
        ELSE g

_onChange(g) ==
    LET selected == g.typeahead.selected
    IN  IF Truthy(selected) /\ Some(JSONstringify(selected[1])) # g.lastSelected
        THEN IF g.options.flyTo.kind = "false"
             THEN g
             ELSE sendDetail(g, DetailRequest(selected[1]))
        ELSE g

\* FlyOptions with center set before the custom options are merged in
FlyOptionsCenterFirst(g, detail) ==
    [zoom |-> IF g.options.flyTo.kind = "object" /\ Truthy(g.options.flyTo.zoom)
              THEN g.options.flyTo.zoom[1]
              ELSE g.options.zoom,
     center |-> IF g.options.flyTo.kind = "object" /\ Truthy(g.options.flyTo.center)
                THEN g.options.flyTo.center[1]
                ELSE <<detail.lng, detail.lat>>]

\* extend({}, {zoom: this.options.zoom}, this.options.flyTo), then center
FlyOptions(g, detail) ==
    [zoom |-> IF g.options.flyTo.kind = "object" /\ Truthy(g.options.flyTo.zoom)
              THEN g.options.flyTo.zoom[1]
              ELSE g.options.zoom,
     center |-> <<detail.lng, detail.lat>>]

\* this._map.flyTo(flyOptions)
mapFlyTo(g, flyOptions) == [g EXCEPT !.flown = Append(@, flyOptions)]

\* request.then(...) of _onChange: selected is the candidate the request
\* was made for, detail the location in response.body.result.geometry
onDetailResponse(g, selected, detail) ==
    LET g1 == [g EXCEPT !.clearEl = "none"]
        g2 == IF Truthy(g1.map) THEN mapFlyTo(g1, FlyOptions(g1, detail)) ELSE g1
        g3 == IF g2.options.marker /\ Truthy(g2.goongjs)
              THEN _handleMarker(g2, detail)
              ELSE g2
        g4 == [g3 EXCEPT !.lastSelected = Some(JSONstringify(selected))]
    IN  emit(g4, "result", Some([placeid |-> selected.place_id, location |-> detail]))

\* onDetailError handling the failure as _geocode handles a failed search
onDetailErrorBanner(g, status) ==
    LET g1 == [g EXCEPT !.typeahead.selected = Null]
        g2 == _renderError(g1)
    IN  emit(g2, "error", Some(status))

\* request.catch(...) of _onChange
onDetailError(g, status) == emit(g, "error", Some(status))

-----------------------------------------------------------------------------
(* Search: _geocode and the autocomplete response handlers *)

\* the config of autoCompleteService.search: location is "lat,lng" when the
\* proximity test of _geocode passes
SearchConfig(g, searchInput) ==
    [input |-> searchInput,
     radius |-> g.options.radius,
     location |->
        IF /\ g.options.trackProximity
           /\ Truthy(g.map)
           /\ Truthy(g.options.proximity)
           /\ g.options.proximity[1].latitude # 0
           /\ g.options.proximity[1].longitude # 0
        THEN Some(<<g.options.proximity[1].latitude, g.options.proximity[1].longitude>>)
        ELSE Null]

SearchRequest(config, viaQuery) ==
    [config |-> config, latest |-> TRUE, viaQuery |-> viaQuery]

\* autoCompleteService.search(config).send()
sendSearch(g, req) ==
    [g EXCEPT !.searches = Append(Supersede(@), req),
              !.sent = Append(@, [kind |-> "search", req |-> req,
                                  after |-> Len(g.emitted)])]

\* geocodeVia emitting `loading` once the request is on its way
geocodeViaLoadingLast(g, searchInput, viaQuery) ==
    LET g1 == [g EXCEPT !.loadingEl = "block", !.inputString = searchInput]
        g2 == sendSearch(g1, SearchRequest(SearchConfig(g1, searchInput), viaQuery))
    IN  emit(g2, "loading", searchInput)

\* _geocode up to `return request`; viaQuery tells that the caller (query)
\* chains _onQueryResult on the returned request
geocodeVia(g, searchInput, viaQuery) ==
    LET g1 == [g EXCEPT !.loadingEl = "block"]
        g2 == emit(g1, "loading", searchInput)
        g3 == [g2 EXCEPT !.inputString = searchInput]
    IN  IF g2.threw
        THEN g2
        ELSE sendSearch(g3, SearchRequest(SearchConfig(g3, searchInput), viaQuery))

_geocode(g, searchInput) == geocodeVia(g, searchInput, FALSE)

\* onSearchResponse without the branch for an empty list
onSearchResponseOneBranch(g, predictions) ==
    LET g1 == [g EXCEPT !.loadingEl = "none", !.fresh = FALSE, !.clearEl = "block"]
        g2 == emit(g1, "results", predictions)
    IN  typeaheadUpdate(g2, predictions)

\* request.then(...) of _geocode, predictions being response.body.predictions
onSearchResponse(g, predictions) ==
    LET g1 == [g EXCEPT !.loadingEl = "none", !.fresh = FALSE]
    IN  IF Len(predictions) > 0
        THEN LET g2 == [g1 EXCEPT !.clearEl = "block"]
                 g3 == emit(g2, "results", predictions)
             IN  IF g3.threw THEN g3 ELSE typeaheadUpdate(g3, predictions)
        ELSE LET g2 == [g1 EXCEPT !.clearEl = "none", !.typeahead.selected = Null]
                 g3 == _renderNoResults(g2)
             IN  emit(g3, "results", predictions)

\* onSearchError emitting `error` alone
onSearchErrorNoResults(g, status) ==
    IF status = 0
    THEN g
    ELSE LET g1 == [g EXCEPT !.loadingEl = "none", !.clearEl = "none",
                             !.typeahead.selected = Null]
             g2 == _renderError(g1)
         IN  emit(g2, "error", Some(status))

\* onSearchError without the test for the abort status
onSearchErrorNoAbortTest(g, status) ==
    LET g1 == [g EXCEPT !.loadingEl = "none", !.clearEl = "none",
                        !.typeahead.selected = Null]
        g2 == _renderError(g1)
        g3 == emit(g2, "results", <<>>)
    IN  emit(g3, "error", Some(status))

\* request.catch(...) of _geocode
onSearchError(g, status) ==
    IF status = 0
    THEN g
    ELSE LET g1 == [g EXCEPT !.loadingEl = "none", !.clearEl = "none",
                             !.typeahead.selected = Null]
             g2 == _renderError(g1)
             g3 == emit(g2, "results", <<>>)
         IN  IF g3.threw THEN g3 ELSE emit(g3, "error", Some(status))

\* _onQueryResult(response): response.result is undefined on the response of
\* the autocomplete service, so the selection becomes undefined and reading
\* results.geometry throws before the input is written
_onQueryResult(g) == [g EXCEPT !.typeahead.selected = Null, !.threw = TRUE]

-----------------------------------------------------------------------------
(* Clearing *)

\* _clear without the call of _removeMarker
_clearKeepsMarker(g) ==
    LET g1 == [g EXCEPT !.inputValue = <<>>, !.typeahead.selected = Null]
        g2 == typeaheadClear(g1)
        g3 == _onChange(g2)
        g4 == [g3 EXCEPT !.clearEl = "none", !.lastSelected = Null]
        g5 == emit(g4, "clear", Null)
    IN  [g5 EXCEPT !.fresh = TRUE]

_clear(g) ==
    LET g1 == [g EXCEPT !.inputValue = <<>>, !.typeahead.selected = Null]
        g2 == typeaheadClear(g1)
        g3 == _onChange(g2)
        g4 == [g3 EXCEPT !.clearEl = "none"]
        g5 == _removeMarker(g4)
        g6 == [g5 EXCEPT !.lastSelected = Null]
        g7 == emit(g6, "clear", Null)
    IN  IF g7.threw THEN g7 ELSE [g7 EXCEPT !.fresh = TRUE]

\* clear(ev): _clear, then focus on the input
clear(g) == _clear(g)

-----------------------------------------------------------------------------
(* Keyboard and clipboard *)

NavigationKeys == {TAB_KEY_CODE, ESC_KEY_CODE, 37, 39, 13, 38, 40}

\* _onKeyDown testing for the navigation keys before the empty input
_onKeyDownNavigationFirst(g, e) ==
    IF e.keyCode = ESC_KEY_CODE /\ g.options.clearAndBlurOnEsc
    THEN _clear(g)
    ELSE IF e.metaKey \/ e.keyCode \in NavigationKeys
         THEN g
         ELSE IF g.inputValue = <<>>
              THEN [clear([g EXCEPT !.fresh = TRUE]) EXCEPT !.clearEl = "none"]
              ELSE IF Len(g.inputValue) >= g.options.minLength
                   THEN _geocode(g, g.inputValue)
                   ELSE g

\* the listener behind the debounce; e.target.value is read when it runs
_onKeyDown(g, e) ==
    IF e.keyCode = ESC_KEY_CODE /\ g.options.clearAndBlurOnEsc
    THEN _clear(g)
    ELSE LET value == g.inputValue
         IN  IF value = <<>>
             THEN LET g1 == [g EXCEPT !.fresh = TRUE]
                      g2 == IF e.keyCode # TAB_KEY_CODE THEN clear(g1) ELSE g1
                  IN  IF g2.threw THEN g2 ELSE [g2 EXCEPT !.clearEl = "none"]
             ELSE IF e.metaKey \/ e.keyCode \in NavigationKeys
                  THEN g
                  ELSE IF Len(value) >= g.options.minLength
                       THEN _geocode(g, value)
                       ELSE g

\* _onPaste without the test of the length
_onPasteUngated(g, value) == _geocode(g, value)

_onPaste(g, value) ==
    IF Len(value) >= g.options.minLength THEN _geocode(g, value) ELSE g

\* what the browser does to the text of the input on a keydown
Typed(text, e) ==
    IF e.metaKey THEN text
    ELSE IF e.keyCode = 65 /\ Len(text) < MaxLen THEN Append(text, "a")
    ELSE IF e.keyCode = 8 /\ Len(text) > 0 THEN SubSeq(text, 1, Len(text) - 1)
    ELSE text

\* a debounce that does not wait
shouldInvokeAtOnce(sinceLastCall) == sinceLastCall >= 0

\* lodash.debounce, trailing edge: the pending call is invoked once `wait`
\* ms have passed since the last call of the debounced function
shouldInvoke(sinceLastCall) == sinceLastCall >= DebounceWait

-----------------------------------------------------------------------------
(* Mounting *)

setProximity(g, proximity) == [g EXCEPT !.options.proximity = proximity]

\* zoom and center are what this._map.getZoom() and getCenter() return
_updateProximity(g, zoom, center) ==
    IF ~Truthy(g.map)
    THEN g
    ELSE IF zoom > ProximityMinZoom
         THEN setProximity(g, Some(center))
         ELSE setProximity(g, Null)

\* onAdd leaving options.marker as it is when there is no goongjs
onAddNoDowngrade(g, withMap, zoom, center) ==
    LET g1 == [g EXCEPT !.phase = "added",
                        !.map = IF withMap THEN Some("map") ELSE @,
                        !.typeahead = [data |-> <<>>, selected |-> Null,
                                       message |-> "none"],
                        !.mapMarker = Null]
    IN  IF Truthy(g1.map)
        THEN LET g2 == IF g1.options.trackProximity
                       THEN [_updateProximity(g1, zoom, center)
                                EXCEPT !.subscribed = TRUE]
                       ELSE g1
             IN  [g2 EXCEPT !.goongjs = g2.options.goongjs]
        ELSE g1

\* onAdd(map); withMap is FALSE when addTo calls onAdd() for an html element
onAdd(g, withMap, zoom, center) ==
    LET g1 == [g EXCEPT !.phase = "added",
                        !.map = IF withMap THEN Some("map") ELSE @,
                        !.typeahead = [data |-> <<>>, selected |-> Null,
                                       message |-> "none"],
                        !.mapMarker = Null]
    IN  IF Truthy(g1.map)
        THEN LET g2 == IF g1.options.trackProximity
                       THEN [_updateProximity(g1, zoom, center)
                                EXCEPT !.subscribed = TRUE]
                       ELSE g1
                 g3 == [g2 EXCEPT !.goongjs = g2.options.goongjs]
             IN  IF ~Truthy(g3.goongjs) /\ g3.options.marker
                 THEN [g3 EXCEPT !.options.marker = FALSE]
                 ELSE g3
        ELSE g1

\* onRemove without `this._map = null`
onRemoveKeepsMap(g) ==
    LET g1 == [g EXCEPT !.phase = "removed",
                        !.subscribed = IF g.options.trackProximity /\ Truthy(g.map)
                                       THEN FALSE ELSE @]
    IN  _removeMarker(g1)

onRemove(g) ==
    LET g1 == [g EXCEPT !.phase = "removed",
                        !.subscribed = IF g.options.trackProximity /\ Truthy(g.map)
                                       THEN FALSE ELSE @]
        g2 == _removeMarker(g1)
    IN  [g2 EXCEPT !.map = Null]

-----------------------------------------------------------------------------
(* The state machine *)

DefaultOptions ==
    [zoom |-> DefaultZoom, flyTo |-> FlyToTrue, trackProximity |-> TRUE,
     minLength |-> DefaultMinLength, radius |-> DefaultRadius, marker |-> TRUE,
     goongjs |-> Null, clearAndBlurOnEsc |-> FALSE, proximity |-> Null]

\* the options the constructor is given: extend({}, this.options, options)
Constructions ==
    {[DefaultOptions EXCEPT !.goongjs = Some("goongjs")],
     [DefaultOptions EXCEPT !.goongjs = Some("goongjs"), !.flyTo = FlyToFalse],
     [DefaultOptions EXCEPT !.goongjs = Some("goongjs"), !.flyTo = FlyToCustom],
     DefaultOptions,
     [DefaultOptions EXCEPT !.goongjs = Some("goongjs"), !.marker = FALSE],
     [DefaultOptions EXCEPT !.trackProximity = FALSE,
                            !.proximity = Some([latitude |-> 21, longitude |-> 105])],
     [DefaultOptions EXCEPT !.clearAndBlurOnEsc = TRUE]}

\* a handler that ran: the request it settled, its input, and whether there
\* was a selection (search answers) or a marker (detail answers, keydown
\* listener, clear, onRemove) before it
Ran(op, req, arg, had) == [op |-> op, req |-> req, arg |-> arg, had |-> had]

NoPicks == [candidate |-> Null, requests |-> 0]

\* GoongGeocoder(options), options being one of constructions; the elements
\* onAdd creates do not exist yet; the host has registered its listeners
InitWith(constructions, throwers) ==
    /\ options \in constructions
    /\ thrower \in throwers
    /\ phase = "constructed"
    /\ map = Null
    /\ goongjs = Null
    /\ subscribed = FALSE
    /\ inputValue = <<>>
    /\ inputString = <<>>
    /\ fresh = TRUE
    /\ lastSelected = Null
    /\ typeahead = [data |-> <<>>, selected |-> Null, message |-> "none"]
    /\ loadingEl = ""
    /\ clearEl = ""
    /\ mapMarker = Null
    /\ markersOnMap = 0
    /\ searches = <<>>
    /\ details = <<>>
    /\ debounced = Null
    /\ timer = DebounceWait
    /\ burst = 0
    /\ picks = NoPicks
    /\ emitted = <<>>
    /\ flown = <<>>
    /\ sent = <<>>
    /\ threw = FALSE
    /\ last = Ran("new", Null, Null, FALSE)

\* a host whose listeners do not throw
InitOf(constructions) == InitWith(constructions, {Null})

Init == InitOf(Constructions)

\* the state a handler leaves behind; a step that would put more requests in
\* flight than the model holds is not taken
Settles(g) ==
    /\ Len(g.searches) + Len(g.details) <= MaxInFlight
    /\ options' = g.options
    /\ phase' = g.phase
    /\ map' = g.map
    /\ goongjs' = g.goongjs
    /\ subscribed' = g.subscribed
    /\ inputValue' = g.inputValue
    /\ inputString' = g.inputString
    /\ fresh' = g.fresh
    /\ lastSelected' = g.lastSelected
    /\ typeahead' = g.typeahead
    /\ loadingEl' = g.loadingEl
    /\ clearEl' = g.clearEl
    /\ mapMarker' = g.mapMarker
    /\ markersOnMap' = g.markersOnMap
    /\ searches' = g.searches
    /\ details' = g.details
    /\ emitted' = g.emitted
    /\ flown' = g.flown
    /\ sent' = g.sent
    /\ threw' = g.threw
    /\ thrower' = g.thrower

Cleared(g) == \E i \in 1..Len(g.emitted) : g.emitted[i].type = "clear"

\* a handler other than a change event of the user
Becomes(g) ==
    /\ Settles(g)
    /\ picks' = IF Cleared(g) THEN NoPicks ELSE picks

\* a change event of the user, carrying the selection of g
Picks(g) ==
    LET selected == g.typeahead.selected
        n == Len(g.sent)
    IN  /\ Settles(g)
        /\ picks' = IF ~Truthy(selected) THEN picks
                    ELSE IF selected = picks.candidate
                    THEN [picks EXCEPT !.requests = IF @ + n > 2 THEN 2 ELSE @ + n]
                    ELSE [candidate |-> selected, requests |-> n]

Remove(seq, i) == SubSeq(seq, 1, i - 1) \o SubSeq(seq, i + 1, Len(seq))

\* what addTo is given: a map (it has a _controlContainer), a string that
\* starts with '#' or '.' and the number of elements it selects, or
\* something else (an element, a string that is no selector)
Containers ==
    {[name |-> "map", controlContainer |-> TRUE, selector |-> FALSE, matches |-> 0],
     [name |-> "#one", controlContainer |-> FALSE, selector |-> TRUE, matches |-> 1],
     [name |-> "#none", controlContainer |-> FALSE, selector |-> TRUE, matches |-> 0],
     [name |-> ".many", controlContainer |-> FALSE, selector |-> TRUE, matches |-> 2],
     [name |-> "element", controlContainer |-> FALSE, selector |-> FALSE, matches |-> 0]}

\* throw new Error(...)
throw(g) == [g EXCEPT !.threw = TRUE]

\* addTo appending the control to the first element a selector matches
addToFirstMatch(g, container, zoom, center) ==
    IF container.controlContainer
    THEN onAdd(g, TRUE, zoom, center)
    ELSE IF container.selector
         THEN IF container.matches = 0
              THEN throw(g)
              ELSE onAdd(g, FALSE, zoom, center)
         ELSE throw(g)

\* addTo(container): a map adds the control, which calls onAdd(map); the one
\* element a selector matches gets the element onAdd() returns
addTo(g, container, zoom, center) ==
    IF container.controlContainer
    THEN onAdd(g, TRUE, zoom, center)
    ELSE IF container.selector
         THEN IF container.matches = 0
              THEN throw(g)
              ELSE IF container.matches > 1
                   THEN throw(g)
                   ELSE onAdd(g, FALSE, zoom, center)
         ELSE throw(g)

AddTo ==
    /\ phase = "constructed"
    /\ \E container \in Containers :
          /\ Becomes(addTo(G, container, MountView.zoom, MountView.center))
          /\ last' = Ran("addTo", Null, Some(container), FALSE)
    /\ UNCHANGED <<debounced, timer, burst>>

\* a keydown on the input: the browser edits the text, the debounced
\* listener records the event and restarts its wait
KeyDown ==
    /\ phase = "added"
    /\ \E e \in KeyEvents :
          /\ Becomes([G EXCEPT !.inputValue = Typed(@, e)])
          /\ debounced' = Some([e |-> e, text |-> Typed(inputValue, e),
                                 calls |-> IF timer >= DebounceWait THEN 1 ELSE 2])
          /\ last' = Ran("keydown", Null, Null, FALSE)
    /\ timer' = 0
    /\ burst' = IF timer >= DebounceWait THEN 0 ELSE burst

Tick ==
    /\ timer < DebounceWait
    /\ timer' = IF timer + TickMs > DebounceWait THEN DebounceWait ELSE timer + TickMs
    /\ UNCHANGED <<options, phase, map, goongjs, subscribed, inputValue,
                   inputString, fresh, lastSelected, typeahead, loadingEl, clearEl,
                   mapMarker, markersOnMap, searches, details, debounced, burst,
                   picks, emitted, flown, sent, threw, thrower, last>>

\* the debounce invokes _onKeyDown with the last event
KeyDownInvoke ==
    /\ Truthy(debounced)
    /\ shouldInvoke(timer)
    /\ LET g == _onKeyDown(G, debounced[1].e)
       IN  /\ Becomes(g)
           /\ burst' = burst + Len(g.sent)
    /\ debounced' = Null
    /\ last' = Ran("_onKeyDown", Null, debounced, Truthy(mapMarker))
    /\ UNCHANGED timer

\* a paste into the input: _onPaste runs, then the browser inserts the text
Paste ==
    /\ phase = "added"
    /\ \E value \in Clipboard :
          /\ Becomes([_onPaste(G, value) EXCEPT
                        !.inputValue = IF Len(@ \o value) <= MaxLen
                                       THEN @ \o value ELSE value])
          /\ last' = Ran("_onPaste", Null, value, FALSE)
    /\ UNCHANGED <<debounced, timer, burst>>

\* the user picks a suggestion: the typeahead records it, writes
\* getItemValue(item) to the input and dispatches `change`
Select ==
    /\ phase = "added"
    /\ typeahead.message = "none"
    /\ \E i \in 1..Len(typeahead.data) :
          LET item == typeahead.data[i]
          IN  /\ Picks(_onChange([G EXCEPT !.typeahead.selected = Some(item),
                                           !.inputValue = item.description]))
              /\ last' = Ran("select", Null, Some(item), FALSE)
    /\ UNCHANGED <<debounced, timer, burst>>

\* a `change` event of the input with the selection as it stands
Change ==
    /\ phase = "added"
    /\ Picks(_onChange(G))
    /\ last' = Ran("_onChange", Null, typeahead.selected, FALSE)
    /\ UNCHANGED <<debounced, timer, burst>>

\* the autocomplete service answers request i
SearchResponse ==
    /\ \E i \in 1..Len(searches), predictions \in PredictionLists :
          LET g0 == [G EXCEPT !.searches = Remove(@, i)]
              g1 == onSearchResponse(g0, predictions)
          IN  /\ Becomes(IF searches[i].viaQuery THEN _onQueryResult(g1) ELSE g1)
              /\ last' = Ran("searchResponse", Some(searches[i]), predictions,
                             Truthy(typeahead.selected))
    /\ UNCHANGED <<debounced, timer, burst>>

\* request i to the autocomplete service fails
SearchError ==
    /\ \E i \in 1..Len(searches), status \in ErrorStatuses :
          /\ Becomes(onSearchError([G EXCEPT !.searches = Remove(@, i)], status))
          /\ last' = Ran("searchError", Some(searches[i]), Some(status),
                         Truthy(typeahead.selected))
    /\ UNCHANGED <<debounced, timer, burst>>

\* the place detail service answers request i
DetailResponse ==
    /\ \E i \in 1..Len(details) :
          /\ Becomes(onDetailResponse([G EXCEPT !.details = Remove(@, i)],
                                      details[i].selected, Location(details[i].placeid)))
          /\ last' = Ran("detailResponse", Some(details[i]), Null, Truthy(mapMarker))
    /\ UNCHANGED <<debounced, timer, burst>>

\* request i to the place detail service fails
DetailError ==
    /\ \E i \in 1..Len(details), status \in ErrorStatuses :
          /\ Becomes(onDetailError([G EXCEPT !.details = Remove(@, i)], status))
          /\ last' = Ran("detailError", Some(details[i]), Some(status), FALSE)
    /\ UNCHANGED <<debounced, timer, burst>>

\* clear(): the clear button, or the host
Clear ==
    /\ phase # "constructed"
    /\ Becomes(clear(G))
    /\ last' = Ran("clear", Null, Null, Truthy(mapMarker))
    /\ UNCHANGED <<debounced, timer, burst>>

\* query(searchInput): _geocode(searchInput).then(this._onQueryResult)
Query ==
    /\ phase # "constructed"
    /\ \E searchInput \in QueryInputs :
          /\ Becomes(geocodeVia(G, searchInput, TRUE))
          /\ last' = Ran("query", Null, searchInput, FALSE)
    /\ UNCHANGED <<debounced, timer, burst>>

\* the map control is removed
OnRemove ==
    /\ phase = "added"
    /\ Becomes(onRemove(G))
    /\ last' = Ran("onRemove", Null, Null, Truthy(mapMarker))
    /\ UNCHANGED <<debounced, timer, burst>>

\* the map fires moveend
MapMoveEnd ==
    /\ subscribed
    /\ \E zoom \in Zooms, center \in Centers :
          /\ Becomes(_updateProximity(G, zoom, center))
          /\ last' = Ran("_updateProximity", Null, Some(center), FALSE)
    /\ UNCHANGED <<debounced, timer, burst>>

\* the host calls setProximity(proximity)
SetProximity ==
    /\ \E proximity \in {Null} \cup {Some(center) : center \in Centers} :
          /\ proximity # options.proximity
          /\ Becomes(setProximity(G, proximity))
          /\ last' = Ran("setProximity", Null, proximity, FALSE)
    /\ UNCHANGED <<debounced, timer, burst>>

Next ==
    \/ AddTo
    \/ KeyDown
    \/ Tick
    \/ KeyDownInvoke
    \/ Paste
    \/ Select
    \/ Change
    \/ SearchResponse
    \/ SearchError
    \/ DetailResponse
    \/ DetailError
    \/ Clear
    \/ Query
    \/ OnRemove
    \/ MapMoveEnd
    \/ SetProximity

Spec == Init /\ [][Next]_vars

-----------------------------------------------------------------------------
(* The parts of Spec that TLC explores in full: the control under a user
   who only types, the service answering every search; and under a user who
   only pastes and picks suggestions *)

KeyConstructions ==
    {[DefaultOptions EXCEPT !.goongjs = Some("goongjs")],
     [DefaultOptions EXCEPT !.clearAndBlurOnEsc = TRUE]}

NextKeys ==
    \/ AddTo
    \/ KeyDown
    \/ Tick
    \/ KeyDownInvoke
    \/ SearchResponse
    \/ Clear

SpecKeys == InitOf(KeyConstructions) /\ [][NextKeys]_vars

SelectConstructions ==
    {[DefaultOptions EXCEPT !.goongjs = Some("goongjs")],
     [DefaultOptions EXCEPT !.goongjs = Some("goongjs"), !.flyTo = FlyToFalse],
     [DefaultOptions EXCEPT !.goongjs = Some("goongjs"), !.flyTo = FlyToCustom]}

NextSelect ==
    \/ AddTo
    \/ Paste
    \/ Select
    \/ Change
    \/ SearchResponse
    \/ SearchError
    \/ DetailResponse
    \/ DetailError
    \/ Clear

SpecSelect == InitOf(SelectConstructions) /\ [][NextSelect]_vars

\* a host with a listener that throws, under a user who pastes, picks
\* suggestions and clears
Throwers == {Some(type) : type \in {"loading", "results", "result", "clear", "error"}}

ThrowConstructions == {[DefaultOptions EXCEPT !.goongjs = Some("goongjs")]}

NextThrow ==
    \/ AddTo
    \/ Paste
    \/ Select
    \/ SearchResponse
    \/ SearchError
    \/ DetailResponse
    \/ Clear

SpecThrow == InitWith(ThrowConstructions, Throwers) /\ [][NextThrow]_vars

\* markers asked for without goongjs, markers turned off, and markers with
\* goongjs, on a map and on an html element, under a user who pastes and
\* picks suggestions
MarkerConstructions ==
    {DefaultOptions,
     [DefaultOptions EXCEPT !.goongjs = Some("goongjs"), !.marker = FALSE],
     [DefaultOptions EXCEPT !.goongjs = Some("goongjs")]}

NextMarker ==
    \/ AddTo
    \/ Paste
    \/ Select
    \/ SearchResponse
    \/ DetailResponse
    \/ Clear
    \/ OnRemove

SpecMarker == InitOf(MarkerConstructions) /\ [][NextMarker]_vars

\* a host that calls query, under a user who pastes and clears
QueryConstructions == {[DefaultOptions EXCEPT !.goongjs = Some("goongjs")]}

NextQuery ==
    \/ AddTo
    \/ Query
    \/ Paste
    \/ SearchResponse
    \/ SearchError
    \/ Clear

SpecQuery == InitOf(QueryConstructions) /\ [][NextQuery]_vars

\* a user who types, picks a suggestion and types on, emptying the input
EmptyConstructions == {[DefaultOptions EXCEPT !.goongjs = Some("goongjs")]}

NextEmpty ==
    \/ AddTo
    \/ SearchResponse
    \/ Select
    \/ DetailResponse
    \/ KeyDown
    \/ Tick
    \/ KeyDownInvoke

SpecEmpty == InitOf(EmptyConstructions) /\ [][NextEmpty]_vars

\* a proximity given to the constructor, set by the host or tracked from the
\* view of the map, under a user who pastes
ProximityConstructions ==
    {[DefaultOptions EXCEPT !.goongjs = Some("goongjs")],
     [DefaultOptions EXCEPT !.goongjs = Some("goongjs"), !.trackProximity = FALSE,
                            !.proximity = Some([latitude |-> 21, longitude |-> 105])]}

NextProximity ==
    \/ AddTo
    \/ Paste
    \/ SearchResponse
    \/ MapMoveEnd
    \/ SetProximity

SpecProximity == InitOf(ProximityConstructions) /\ [][NextProximity]_vars

\* a user who types and pastes while the service has yet to answer, under
\* the default minLength and under one that the text on the clipboard does
\* not reach
LongerMinLength == DefaultMinLength + 1

TypeConstructions ==
    {[DefaultOptions EXCEPT !.goongjs = Some("goongjs")],
     [DefaultOptions EXCEPT !.goongjs = Some("goongjs"), !.minLength = LongerMinLength]}

NextType ==
    \/ AddTo
    \/ KeyDown
    \/ Tick
    \/ KeyDownInvoke
    \/ Paste

SpecType == InitOf(TypeConstructions) /\ [][NextType]_vars

-----------------------------------------------------------------------------
(* Properties *)

SelectionEvents == {"select", "_onChange"}

SearchAnswers == {"searchResponse", "searchError"}

\* C1: the answer to a search that a newer search has superseded changes
\* nothing: no event is emitted and the suggestion list, the selection, the
\* indicators and the fresh flag stay as they were.
C1_StaleSearchAnswerIgnored ==
    [][(last'.op \in SearchAnswers /\ ~last'.req[1].latest)
          => (emitted' = <<>> /\ UNCHANGED <<typeahead, loadingEl, clearEl, fresh>>)]_vars

\* C2: a burst of keydowns, each less than the debounce wait after the one
\* before, dispatches at most one search; the listener dispatches it only
\* once the wait has passed since the last keydown, with the text of the
\* input as of that keydown; a keydown itself dispatches nothing.
C2_Debounce ==
    /\ burst <= 1
    /\ last.op = "keydown" => sent = <<>>
    /\ (last.op = "_onKeyDown" /\ sent # <<>>) =>
          /\ timer >= DebounceWait
          /\ Len(sent) = 1
          /\ sent[1].kind = "search"
          /\ sent[1].req.config.input = last.arg[1].text

\* C2 happens: the listener dispatched the search of a burst of two or more
\* keydowns
C2_Witness ==
    /\ last.op = "_onKeyDown"
    /\ sent # <<>>
    /\ last.arg[1].calls = 2
    /\ burst = 1

\* C3 as claimed: consecutive change events carrying the same candidate,
\* with no clear and no other selection in between, issue at most one
\* placeDetail request in total.
C3_OneRequestPerCandidate == picks.requests <= 1

\* C3 as amended: a change event carrying the candidate that is the last
\* confirmed selection (the detail response to an earlier event succeeded)
\* issues no placeDetail request.
C3_ConfirmedNotRequestedAgain ==
    (/\ last.op \in SelectionEvents
     /\ Truthy(typeahead.selected)
     /\ Some(JSONstringify(typeahead.selected[1])) = lastSelected)
        => sent = <<>>

\* C3 happens: the first event issued the one request, it succeeded, and a
\* second event carried the same candidate
C3_Witness ==
    /\ last.op = "select"
    /\ Some(JSONstringify(typeahead.selected[1])) = lastSelected
    /\ picks.requests = 1
    /\ sent = <<>>

\* C4: when clear() returns no marker is on the map, the selection and the
\* last confirmed selection are none, the suggestion list is empty, fresh is
\* true, and the call has emitted exactly one `clear`.
C4_ClearResets ==
    last.op = "clear" =>
        /\ mapMarker = Null
        /\ markersOnMap = 0
        /\ typeahead.selected = Null
        /\ lastSelected = Null
        /\ typeahead.data = <<>>
        /\ fresh
        /\ emitted = <<Event("clear", Null)>>

\* C4 happens: clear() ran with a marker on the map
C4_Witness == last.op = "clear" /\ last.had /\ mapMarker = Null

\* C5: a search that succeeds with no predictions sets the selection to
\* none, empties the list, renders the no-results message (not the error
\* message) and emits exactly one `results`, with an empty list, and no
\* `error`.
C5_EmptyResult ==
    (last.op = "searchResponse" /\ last.arg = <<>>) =>
        /\ typeahead.selected = Null
        /\ typeahead.data = <<>>
        /\ typeahead.message = "noresults"
        /\ emitted = <<Event("results", <<>>)>>

\* C5 happens: an empty answer arrived while a candidate was selected
C5_Witness == last.op = "searchResponse" /\ last.arg = <<>> /\ last.had

\* C6: a search that fails with a status other than 0 renders the error
\* message in place of the list, clears the selection, hides the loading
\* indicator and emits one `results` with an empty list and one `error`
\* with the error.
C6_SearchFailure ==
    (last.op = "searchError" /\ last.arg # Some(0)) =>
        /\ typeahead.message = "error"
        /\ typeahead.data = <<>>
        /\ typeahead.selected = Null
        /\ loadingEl = "none"
        /\ emitted = <<Event("results", <<>>), Event("error", last.arg)>>

\* C6 happens: a search failed with status 500 while a candidate was selected
C6_Witness == last.op = "searchError" /\ last.arg = Some(500) /\ last.had

\* C7: a search that fails with status 0 emits nothing and leaves the
\* list, the selection and the rendered message as they were.
C7_CancellationSilent ==
    [][(last'.op = "searchError" /\ last'.arg = Some(0))
          => (emitted' = <<>> /\ UNCHANGED typeahead)]_vars

\* C7 happens: a search was cancelled with suggestions listed and one selected
C7_Witness ==
    /\ last.op = "searchError"
    /\ last.arg = Some(0)
    /\ typeahead.data # <<>>
    /\ Truthy(typeahead.selected)

\* C8: a failed placeDetail request emits one `error` and nothing else: no
\* flyTo, no request, no change of the list, the selection, the message,
\* the marker, the indicators or the last confirmed selection; a change
\* event that then carries its candidate, still unconfirmed, issues a new
\* request for it.
C8_DetailFailure ==
    [][/\ last'.op = "detailError" =>
             /\ emitted' = <<Event("error", last'.arg)>>
             /\ flown' = <<>>
             /\ sent' = <<>>
             /\ UNCHANGED <<typeahead, mapMarker, markersOnMap, lastSelected,
                            loadingEl, clearEl, fresh, inputValue, searches>>
       /\ (/\ last.op = "detailError"
           /\ last'.op \in SelectionEvents
           /\ typeahead'.selected = Some(last.req[1].selected)
           /\ lastSelected # Some(JSONstringify(last.req[1].selected)))
             => /\ Len(sent') = 1
                /\ sent'[1].kind = "placeDetail"
                /\ sent'[1].req.placeid = last.req[1].placeid]_vars

\* C8 happens: a placeDetail request failed with a marker on the map and a
\* confirmed selection
C8_Witness ==
    /\ last.op = "detailError"
    /\ Truthy(mapMarker)
    /\ Truthy(lastSelected)

\* C9: with flyTo enabled, a change event carrying a candidate other than
\* the last confirmed selection issues exactly one placeDetail request, for
\* the candidate's place_id; when it succeeds with (lat, lng) the candidate
\* becomes the last confirmed selection, one `result` with the detail is
\* emitted and the map, if there is one, is sent one flyTo with center
\* [lng, lat], and with zoom options.zoom unless options.flyTo sets one.
C9_SelectionSuccess ==
    /\ (/\ last.op \in SelectionEvents
        /\ Truthy(typeahead.selected)
        /\ Some(JSONstringify(typeahead.selected[1])) # lastSelected
        /\ options.flyTo.kind # "false")
          => /\ Len(sent) = 1
             /\ sent[1].kind = "placeDetail"
             /\ sent[1].req.placeid = typeahead.selected[1].place_id
    /\ last.op = "detailResponse" =>
          LET candidate == last.req[1].selected
              location == Location(candidate.place_id)
          IN  /\ lastSelected = Some(JSONstringify(candidate))
              /\ emitted = <<Event("result", Some([placeid |-> candidate.place_id,
                                                   location |-> location]))>>
              /\ Len(flown) = IF Truthy(map) THEN 1 ELSE 0
              /\ Truthy(map) =>
                    /\ flown[1].center = <<location.lng, location.lat>>
                    /\ options.flyTo.kind = "true" => flown[1].zoom = options.zoom

\* C9 happens: a detail arrived under custom flyTo options and the map was
\* sent a flyTo
C9_Witness ==
    /\ last.op = "detailResponse"
    /\ flown # <<>>
    /\ options.flyTo.kind = "object"

\* C10: a change event carrying a candidate other than the last confirmed
\* selection issues a placeDetail request whatever options.flyTo is.
C10_RequestWhateverFlyTo ==
    (/\ last.op \in SelectionEvents
     /\ Truthy(typeahead.selected)
     /\ Some(JSONstringify(typeahead.selected[1])) # lastSelected)
        => sent # <<>>

\* String.prototype.trim: the text without its leading and trailing blanks
trim(text) ==
    LET inked == {i \in 1..Len(text) : text[i] # " "}
    IN  IF inked = {}
        THEN <<>>
        ELSE SubSeq(text, CHOOSE i \in inked : \A j \in inked : i <= j,
                          CHOOSE i \in inked : \A j \in inked : j <= i)

\* C11: the keydown listener, when the debounce invokes it, issues a search
\* and emits `loading` if and only if the trimmed text of the input is at
\* least minLength long, the key is not a navigation key and the meta key is
\* not held.
C11_TriggerGate ==
    [][(Truthy(debounced) /\ debounced' = Null) =>
          LET e == debounced[1].e
              gate == /\ Len(trim(inputValue)) >= options.minLength
                      /\ e.keyCode \notin NavigationKeys
                      /\ ~e.metaKey
          IN  /\ (\E i \in 1..Len(sent') : sent'[i].kind = "search") <=> gate
              /\ (\E i \in 1..Len(emitted') : emitted'[i].type = "loading") <=> gate]_vars

\* C12: a paste of a text shorter than minLength issues nothing; a paste
\* of a longer text issues, in the paste handler itself, one search for the
\* pasted text, preceded by its `loading`, whatever the debounce holds and
\* however long it has waited; the test is the one the keydown listener
\* applies to the same text.
C12_Paste ==
    last.op = "_onPaste" =>
        LET value == last.arg
            keyed == _onKeyDown([G EXCEPT !.inputValue = value],
                                [keyCode |-> 65, metaKey |-> FALSE])
        IN  /\ (sent # <<>>) <=> (keyed.sent # <<>>)
            /\ IF Len(value) >= options.minLength
               THEN /\ Len(sent) = 1
                    /\ sent[1].kind = "search"
                    /\ sent[1].req.config.input = value
                    /\ emitted = <<Event("loading", value)>>
               ELSE sent = <<>> /\ emitted = <<>>

\* C12 happens: a paste issued its search while a keydown was waiting in
\* the debounce, before the wait was over
C12_Witness ==
    /\ last.op = "_onPaste"
    /\ sent # <<>>
    /\ Truthy(debounced)
    /\ timer < DebounceWait

\* C13: every search request carries the query text as input, options.radius
\* as radius, and the location "latitude,longitude" of options.proximity
\* whenever options.proximity is set, and no location when it is not.
C13_Payload ==
    \A i \in 1..Len(sent) :
        sent[i].kind = "search" =>
            LET config == sent[i].req.config
            IN  /\ config.input = last.arg
                /\ config.radius = options.radius
                /\ config.location =
                      IF Truthy(options.proximity)
                      THEN Some(<<options.proximity[1].latitude,
                                  options.proximity[1].longitude>>)
                      ELSE Null

\* C14: a handler that issues a search has emitted, before the request and
\* once, `loading` with the text of the request; the handler of an answer
\* that is not a cancellation emits exactly one `results`, with the
\* predictions of a success and an empty list for a failure; after a
\* success with predictions the suggestion list holds them.
C14_EventProtocol ==
    LET results == {i \in 1..Len(emitted) : emitted[i].type = "results"}
        loadings == {i \in 1..Len(emitted) : emitted[i].type = "loading"}
        issued == {i \in 1..Len(sent) : sent[i].kind = "search"}
    IN  /\ Cardinality(loadings) = Cardinality(issued)
        /\ \A i \in issued :
              /\ sent[i].after \in loadings
              /\ emitted[sent[i].after].payload = sent[i].req.config.input
        /\ last.op = "searchResponse" =>
              /\ Cardinality(results) = 1
              /\ \A i \in results : emitted[i].payload = last.arg
              /\ last.arg # <<>> => typeahead.data = last.arg
        /\ (last.op = "searchError" /\ last.arg # Some(0)) =>
              /\ Cardinality(results) = 1
              /\ \A i \in results : emitted[i].payload = <<>>

\* C14 happens: a search was answered with predictions, which the list now
\* holds, while another search was in flight
C14_Witness ==
    /\ last.op = "searchResponse"
    /\ last.arg # <<>>
    /\ typeahead.data = last.arg
    /\ searches # <<>>

\* C15: the last confirmed selection is set only by the handler of a
\* successful placeDetail response, and it is none after every handler that
\* issues a search and after every clear.
C15_ConfirmedSelection ==
    [][/\ (lastSelected' # lastSelected /\ Truthy(lastSelected'))
             => last'.op = "detailResponse"
       /\ (\E i \in 1..Len(sent') : sent'[i].kind = "search")
             => lastSelected' = Null
       /\ last'.op = "clear" => lastSelected' = Null]_vars

\* C16: the loading indicator of the mounted control is visible if and
\* only if the latest search request is still in flight.
C16_LoadingInvariant ==
    phase = "added" =>
        ((loadingEl = "block") <=> (\E i \in 1..Len(searches) : searches[i].latest))

\* the handler h left the control as it is after this step: the fields of
\* the control, the typeahead, the indicators and the requests it issued
LeavesAs(h) ==
    /\ inputString' = h.inputString
    /\ fresh' = h.fresh
    /\ lastSelected' = h.lastSelected
    /\ typeahead' = h.typeahead
    /\ loadingEl' = h.loadingEl
    /\ clearEl' = h.clearEl
    /\ mapMarker' = h.mapMarker
    /\ [i \in 1..Len(sent') |-> sent'[i].req] = [i \in 1..Len(h.sent) |-> h.sent[i].req]

\* C17: a handler that emits an event has made all its changes before the
\* emit: when the listener of the event throws, the handler leaves the
\* control as the same handler leaves it when no listener throws.
C17_EmitLast ==
    [][threw' =>
          LET quiet == [G EXCEPT !.thrower = Null]
          IN  CASE last'.op = "_onPaste" -> LeavesAs(_onPaste(quiet, last'.arg))
                [] last'.op = "clear" -> LeavesAs(clear(quiet))
                [] last'.op = "searchResponse" ->
                       LeavesAs(onSearchResponse(quiet, last'.arg))
                [] last'.op = "searchError" ->
                       LeavesAs(onSearchError(quiet, last'.arg[1]))
                [] last'.op = "detailResponse" ->
                       LeavesAs(onDetailResponse(quiet, last'.req[1].selected,
                                                 Location(last'.req[1].placeid)))
                [] OTHER -> TRUE]_vars

\* C18: addTo throws and changes nothing when the container is neither a
\* map nor a '#' or '.' selector, or is a selector that matches no element
\* or more than one: the control is not mounted, no element is created, no
\* map is bound.
C18_AddToFailsClosed ==
    [][(/\ last'.op = "addTo"
        /\ ~last'.arg[1].controlContainer
        /\ (~last'.arg[1].selector \/ last'.arg[1].matches # 1))
         => /\ threw'
            /\ phase' = "constructed"
            /\ UNCHANGED <<options, phase, map, goongjs, subscribed, inputValue,
                           inputString, fresh, lastSelected, typeahead, loadingEl,
                           clearEl, mapMarker, markersOnMap, searches, details>>]_vars

\* C18 happens: addTo threw for a selector that matches two elements
C18_Witness ==
    /\ last.op = "addTo"
    /\ threw
    /\ last.arg[1].matches > 1

\* C19: a marker exists only when options.marker is on and the control has
\* both a map and a goongjs, and then it is the one marker on the map;
\* mounting on a map or on the one element of a selector does not throw,
\* and on a map without goongjs it turns options.marker off.
C19_MarkerGating ==
    /\ Truthy(mapMarker) => (options.marker /\ Truthy(map) /\ Truthy(goongjs))
    /\ markersOnMap = IF Truthy(mapMarker) THEN 1 ELSE 0
    /\ (last.op = "addTo" /\ last.arg[1].name \in {"map", "#one"}) =>
          (~threw /\ phase = "added")
    /\ (Truthy(map) /\ ~Truthy(options.goongjs)) => ~options.marker

\* C19 happens: a selection succeeded on a map whose control asked for
\* markers without goongjs, and no marker was placed
C19_Witness ==
    /\ last.op = "detailResponse"
    /\ Truthy(map)
    /\ ~Truthy(options.goongjs)
    /\ flown # <<>>
    /\ mapMarker = Null

\* C20: query(searchInput) issues exactly one search, for searchInput; when
\* the search succeeds the handler query chained on it returns without
\* throwing and, given predictions, leaves a selection and a text in the
\* input.
C20_Query ==
    /\ last.op = "query" =>
          /\ Len(sent) = 1
          /\ sent[1].kind = "search"
          /\ sent[1].req.config.input = last.arg
    /\ (last.op = "searchResponse" /\ last.req[1].viaQuery) =>
          /\ ~threw
          /\ last.arg # <<>> => (Truthy(typeahead.selected) /\ inputValue # <<>>)

\* C21: the answer to a placeDetail request that was in flight when the
\* control was cleared, no selection having been made since, is discarded:
\* no marker, no flyTo, no `result`, and the last confirmed selection
\* stays none.
C21_ClearDiscardsDetail ==
    [][(last'.op = "detailResponse" /\ picks = NoPicks /\ lastSelected = Null)
          => /\ mapMarker' = Null
             /\ flown' = <<>>
             /\ emitted' = <<>>
             /\ lastSelected' = Null]_vars

\* C22: when two placeDetail requests for different candidates were in
\* flight together and both have been answered, one after the other in
\* either order, the last confirmed selection, the marker and the last
\* flyTo are those of the later selection, and the two answers have emitted
\* at most one `result`.
C22_LaterSelectionWins ==
    [][(/\ last.op = "detailResponse"
        /\ last'.op = "detailResponse"
        /\ Len(details) = 1
        /\ details' = <<>>
        /\ last.req[1].selected # details[1].selected
        /\ last.req[1].latest # details[1].latest)
         => LET later == IF details[1].latest THEN details[1] ELSE last.req[1]
                location == Location(later.placeid)
                flights == flown \o flown'
            IN  /\ lastSelected' = Some(JSONstringify(later.selected))
                /\ Truthy(mapMarker') =>
                      mapMarker' = Some(<<location.lng, location.lat>>)
                /\ flights # <<>> =>
                      flights[Len(flights)].center = <<location.lng, location.lat>>
                /\ Len(emitted) + Len(emitted') <= 1]_vars

\* C23: the answer to a search that arrives right after the handler that
\* cleared the control (clear(), or a keydown on an emptied input), the
\* request having been in flight meanwhile, leaves the suggestion list
\* empty, fresh true and the clear button hidden, and emits no `results`.
C23_ClearDiscardsSearch ==
    [][(/\ \E i \in 1..Len(emitted) : emitted[i].type = "clear"
        /\ last'.op = "searchResponse")
          => /\ typeahead'.data = <<>>
             /\ fresh'
             /\ clearEl' = "none"
             /\ \A i \in 1..Len(emitted') : emitted'[i].type # "results"]_vars

\* C24: at most one marker of the control is on the map, and mapMarker is
\* null exactly when none is.
C24_AtMostOneMarker ==
    /\ markersOnMap \in {0, 1}
    /\ (mapMarker = Null) <=> (markersOnMap = 0)

\* C24 happens: the answer to a selection placed its marker where the
\* marker of an earlier selection was on the map
C24_Witness ==
    /\ last.op = "detailResponse"
    /\ last.had
    /\ Truthy(mapMarker)
    /\ markersOnMap = 1

\* C25: once onRemove has run there is no marker, _updateProximity is not
\* registered for moveend, and no handler, the handlers of answers to
\* requests made before the removal included, issues a flyTo or places a
\* marker.
C25_AfterRemove ==
    phase = "removed" =>
        /\ mapMarker = Null
        /\ markersOnMap = 0
        /\ ~subscribed
        /\ flown = <<>>

\* C25 happens: a placeDetail request made before the removal succeeded
\* after it
C25_Witness ==
    /\ phase = "removed"
    /\ last.op = "detailResponse"
    /\ Truthy(lastSelected)
    /\ emitted # <<>>

\* C26: the keydown listener, invoked on an empty input, issues no request
\* and leaves fresh true; unless the key is Tab it clears the control (no
\* marker, no selection, no last confirmed selection, one `clear`), whatever
\* else the key is and whether or not the control was clear already; for
\* Tab it clears nothing.
C26_KeyOnEmptyInput ==
    [][(Truthy(debounced) /\ debounced' = Null /\ inputValue = <<>>) =>
          /\ sent' = <<>>
          /\ fresh'
          /\ IF debounced[1].e.keyCode # TAB_KEY_CODE
             THEN /\ emitted' = <<Event("clear", Null)>>
                  /\ mapMarker' = Null
                  /\ markersOnMap' = 0
                  /\ typeahead'.selected = Null
                  /\ typeahead'.data = <<>>
                  /\ lastSelected' = Null
             ELSE /\ emitted' = <<>>
                  /\ UNCHANGED <<mapMarker, markersOnMap, typeahead, lastSelected>>]_vars

\* C26 happens: a navigation key on the emptied input cleared a control
\* that had a marker on the map
C26_Witness ==
    /\ last.op = "_onKeyDown"
    /\ last.had
    /\ last.arg[1].text = <<>>
    /\ last.arg[1].e.keyCode \in NavigationKeys \ {TAB_KEY_CODE}
    /\ emitted = <<Event("clear", Null)>>
    /\ mapMarker = Null

====
